---------------------------- MODULE Spec2Model ----------------------------
(***************************************************************************)
(* PyStrange (src/pystrange.py): search for strange attractors of          *)
(* polynomial maps and flows.  The module models main(), get_attractors(), *)
(* the three generators get_attractor_2d_map / get_attractor_3d_map /      *)
(* get_attractor_3d_flow, check_histogram(), get_map_function() and the    *)
(* five polynomial maps.                                                   *)
(*                                                                         *)
(* Numbers.  Python floats are modelled as fixed-point integers with four  *)
(* decimals (the value v stands for v / Scale); a product is rounded to    *)
(* the nearest unit.  np.round(., 3) therefore really rounds (it drops the *)
(* fourth decimal, half to even).  Python strings that the program slices, *)
(* matches or parses (family names, parameter strings, output modes) are   *)
(* sequences of one-character strings.  Python's None is the empty         *)
(* sequence for the optional time step and the string "None" for the       *)
(* evaluator returned by get_map_function.                                 *)
(***************************************************************************)
EXTENDS Integers, Sequences, FiniteSets, TLC

---------------------------------------------------------------------------
(* Bounds of the model (inputs that main() receives from the command line) *)

\* largest number of guesses (-n) tried
MaxGuesses == 3
\* largest number of points (-p) of a short request
MaxPoints == 8
\* largest plot offset (-f) of a short request
MaxFirst == 2
\* largest stride (-j)
MaxJump == 3
\* largest interpolation factor (-i)
MaxInterpolate == 2
\* number of points of a long request: with the default offset 200 the
\* trajectory has 302 points, the shortest that reaches loop step 300
LongPoints == 102

(* Program constants *)

\* default of option -f
DefaultFirst == 200
\* the loop step at which check_histogram is called
CheckAt == 300
\* the number of points handed to check_histogram (x[i-100:i])
HistWindow == 100
\* check_histogram's default threshold
Threshold == 50
\* magnitude above which a coordinate is out of bounds
OutOfBounds == 10
\* digits kept by np.round(x, 3)
RoundDigits == 3
\* degree of InterpolatedUnivariateSpline (its default k)
SplineDegree == 3

---------------------------------------------------------------------------
(* Fixed-point arithmetic *)

Scale == 10 * 10 * 10 * 10

Abs(v) == IF v < 0 THEN -v ELSE v

Min(a, b) == IF a < b THEN a ELSE b

\* a * b of two fixed-point numbers, rounded to the nearest unit; a is split
\* so that no intermediate product leaves the 32-bit integers of TLC
FMul(a, b) ==
    LET ah == a \div Scale
        al == a % Scale
    IN  ah * b + ((al * b + (Scale \div 2)) \div Scale)

\* c*p, c*p*q, ... evaluated left to right as Python does
Mul2(a, p) == FMul(a, p)
Mul3(a, p, q) == FMul(FMul(a, p), q)
Mul4(a, p, q, r) == FMul(FMul(FMul(a, p), q), r)
Mul5(a, p, q, r, s) == FMul(FMul(FMul(FMul(a, p), q), r), s)

---------------------------------------------------------------------------
(* Coefficient codec *)

\* the letter table: 'A' is -1.2, ..., 'M' is 0.0, ..., 'Z' is 1.3
coeff ==
    ("A" :> -12000) @@ ("B" :> -11000) @@ ("C" :> -10000) @@
    ("D" :> -9000) @@ ("E" :> -8000) @@ ("F" :> -7000) @@
    ("G" :> -6000) @@ ("H" :> -5000) @@ ("I" :> -4000) @@
    ("J" :> -3000) @@ ("K" :> -2000) @@ ("L" :> -1000) @@
    ("M" :> 0) @@ ("N" :> 1000) @@ ("O" :> 2000) @@
    ("P" :> 3000) @@ ("Q" :> 4000) @@ ("R" :> 5000) @@
    ("S" :> 6000) @@ ("T" :> 7000) @@ ("U" :> 8000) @@
    ("V" :> 9000) @@ ("W" :> 10000) @@ ("X" :> 11000) @@
    ("Y" :> 12000) @@ ("Z" :> 13000)

\* get_coefficient: one table lookup per letter; a letter outside the table
\* raises KeyError
KeyError(parameter_string) ==
    \E k \in 1..Len(parameter_string) : parameter_string[k] \notin DOMAIN coeff

\* the decoding with every coefficient one step of 0.1 too high ('M' is 0.1):
\* C9 tells it apart
get_coefficient_shifted(parameter_string) ==
    [k \in 1..Len(parameter_string) |-> coeff[parameter_string[k]] + (Scale \div 10)]

get_coefficient(parameter_string) ==
    [k \in 1..Len(parameter_string) |-> coeff[parameter_string[k]]]

---------------------------------------------------------------------------
(* The five polynomial maps; c[k] of the source is c[k+1] here *)

\* src/pystrange.py:80-85
map_2d_12(x, y, c) ==
    LET x_next ==
            c[1] + Mul2(c[2], x) + Mul3(c[3], x, x) + Mul3(c[4], x, y) + Mul2(c[5], y)
             + Mul3(c[6], y, y)
        y_next ==
            c[7] + Mul2(c[8], x) + Mul3(c[9], x, x) + Mul3(c[10], x, y) + Mul2(c[11], y)
             + Mul3(c[12], y, y)
    IN  <<x_next, y_next>>

\* src/pystrange.py:89-96
map_2d_20(x, y, c) ==
    LET x_next ==
            c[1] + Mul2(c[2], x) + Mul3(c[3], x, x) + Mul4(c[4], x, x, x)
             + Mul4(c[5], x, x, y) + Mul3(c[6], x, y) + Mul4(c[7], x, y, y) + Mul2(c[8], y)
             + Mul3(c[9], y, y) + Mul4(c[10], y, y, y)
        y_next ==
            c[11] + Mul2(c[12], x) + Mul3(c[13], x, x) + Mul4(c[14], x, x, x)
             + Mul4(c[15], x, x, y) + Mul3(c[16], x, y) + Mul4(c[17], x, y, y)
             + Mul2(c[18], y) + Mul3(c[19], y, y) + Mul4(c[20], y, y, y)
    IN  <<x_next, y_next>>

\* src/pystrange.py:100-109
map_3d_30(x, y, z, c) ==
    LET x_next ==
            c[1] + Mul2(c[2], x) + Mul3(c[3], x, x) + Mul3(c[4], x, y) + Mul3(c[5], x, z)
             + Mul2(c[6], y) + Mul3(c[7], y, y) + Mul3(c[8], y, z) + Mul2(c[9], z)
             + Mul3(c[10], z, z)
        y_next ==
            c[11] + Mul2(c[12], x) + Mul3(c[13], x, x) + Mul3(c[14], x, y)
             + Mul3(c[15], x, z) + Mul2(c[16], y) + Mul3(c[17], y, y) + Mul3(c[18], y, z)
             + Mul2(c[19], z) + Mul3(c[20], z, z)
        z_next ==
            c[21] + Mul2(c[22], x) + Mul3(c[23], x, x) + Mul3(c[24], x, y)
             + Mul3(c[25], x, z) + Mul2(c[26], y) + Mul3(c[27], y, y) + Mul3(c[28], y, z)
             + Mul2(c[29], z) + Mul3(c[30], z, z)
    IN  <<x_next, y_next, z_next>>

\* src/pystrange.py:113-128
map_3d_60(x, y, z, c) ==
    LET x_next ==
            c[1] + Mul2(c[2], x) + Mul3(c[3], x, x) + Mul4(c[4], x, x, x)
             + Mul4(c[5], x, x, y) + Mul4(c[6], x, x, z) + Mul3(c[7], x, y)
             + Mul4(c[8], x, y, y) + Mul4(c[9], x, y, z) + Mul3(c[10], x, z)
             + Mul4(c[11], x, z, z) + Mul2(c[12], y) + Mul3(c[13], y, y)
             + Mul4(c[14], y, y, y) + Mul4(c[15], y, y, z) + Mul3(c[16], y, z)
             + Mul4(c[17], y, z, z) + Mul2(c[18], z) + Mul3(c[19], z, z)
             + Mul4(c[20], z, z, z)
        y_next ==
            c[21] + Mul2(c[22], x) + Mul3(c[23], x, x) + Mul4(c[24], x, x, x)
             + Mul4(c[25], x, x, y) + Mul4(c[26], x, x, z) + Mul3(c[27], x, y)
             + Mul4(c[28], x, y, y) + Mul4(c[29], x, y, z) + Mul3(c[30], x, z)
             + Mul4(c[31], x, z, z) + Mul2(c[32], y) + Mul3(c[33], y, y)
             + Mul4(c[34], y, y, y) + Mul4(c[35], y, y, z) + Mul3(c[36], y, z)
             + Mul4(c[37], y, z, z) + Mul2(c[38], z) + Mul3(c[39], z, z)
             + Mul4(c[40], z, z, z)
        z_next ==
            c[41] + Mul2(c[42], x) + Mul3(c[43], x, x) + Mul4(c[44], x, x, x)
             + Mul4(c[45], x, x, y) + Mul4(c[46], x, x, z) + Mul3(c[47], x, y)
             + Mul4(c[48], x, y, y) + Mul4(c[49], x, y, z) + Mul3(c[50], x, z)
             + Mul4(c[51], x, z, z) + Mul2(c[52], y) + Mul3(c[53], y, y)
             + Mul4(c[54], y, y, y) + Mul4(c[55], y, y, z) + Mul3(c[56], y, z)
             + Mul4(c[57], y, z, z) + Mul2(c[58], z) + Mul3(c[59], z, z)
             + Mul4(c[60], z, z, z)
    IN  <<x_next, y_next, z_next>>

\* src/pystrange.py:132-156
map_3d_105(x, y, z, c) ==
    LET x_next ==
            c[1] + Mul2(c[2], x) + Mul3(c[3], x, x) + Mul4(c[4], x, x, x)
             + Mul5(c[5], x, x, x, x) + Mul5(c[6], x, x, x, y) + Mul5(c[7], x, x, x, z)
             + Mul4(c[8], x, x, y) + Mul5(c[9], x, x, y, y) + Mul5(c[10], x, x, y, z)
             + Mul4(c[11], x, x, z) + Mul5(c[12], x, x, z, z) + Mul3(c[13], x, y)
             + Mul4(c[14], x, y, y) + Mul5(c[15], x, y, y, y) + Mul5(c[16], x, y, y, z)
             + Mul4(c[17], x, y, z) + Mul5(c[18], x, y, z, z) + Mul3(c[19], x, z)
             + Mul4(c[20], x, z, z) + Mul5(c[21], x, z, z, z) + Mul2(c[22], y)
             + Mul3(c[23], y, y) + Mul4(c[24], y, y, y) + Mul5(c[25], y, y, y, y)
             + Mul5(c[26], y, y, y, z) + Mul4(c[27], y, y, z) + Mul5(c[28], y, y, z, z)
             + Mul3(c[29], y, z) + Mul4(c[30], y, z, z) + Mul5(c[31], y, z, z, z)
             + Mul2(c[32], z) + Mul3(c[33], z, z) + Mul4(c[34], z, z, z)
             + Mul5(c[35], z, z, z, z)
        y_next ==
            c[36] + Mul2(c[37], x) + Mul3(c[38], x, x) + Mul4(c[39], x, x, x)
             + Mul5(c[40], x, x, x, x) + Mul5(c[41], x, x, x, y) + Mul5(c[42], x, x, x, z)
             + Mul4(c[43], x, x, y) + Mul5(c[44], x, x, y, y) + Mul5(c[45], x, x, y, z)
             + Mul4(c[46], x, x, z) + Mul5(c[47], x, x, z, z) + Mul3(c[48], x, y)
             + Mul4(c[49], x, y, y) + Mul5(c[50], x, y, y, y) + Mul5(c[51], x, y, y, z)
             + Mul4(c[52], x, y, z) + Mul5(c[53], x, y, z, z) + Mul3(c[54], x, z)
             + Mul4(c[55], x, z, z) + Mul5(c[56], x, z, z, z) + Mul2(c[57], y)
             + Mul3(c[58], y, y) + Mul4(c[59], y, y, y) + Mul5(c[60], y, y, y, y)
             + Mul5(c[61], y, y, y, z) + Mul4(c[62], y, y, z) + Mul5(c[63], y, y, z, z)
             + Mul3(c[64], y, z) + Mul4(c[65], y, z, z) + Mul5(c[66], y, z, z, z)
             + Mul2(c[67], z) + Mul3(c[68], z, z) + Mul4(c[69], z, z, z)
             + Mul5(c[70], z, z, z, z)
        z_next ==
            c[71] + Mul2(c[72], x) + Mul3(c[73], x, x) + Mul4(c[74], x, x, x)
             + Mul5(c[75], x, x, x, x) + Mul5(c[76], x, x, x, y) + Mul5(c[77], x, x, x, z)
             + Mul4(c[78], x, x, y) + Mul5(c[79], x, x, y, y) + Mul5(c[80], x, x, y, z)
             + Mul4(c[81], x, x, z) + Mul5(c[82], x, x, z, z) + Mul3(c[83], x, y)
             + Mul4(c[84], x, y, y) + Mul5(c[85], x, y, y, y) + Mul5(c[86], x, y, y, z)
             + Mul4(c[87], x, y, z) + Mul5(c[88], x, y, z, z) + Mul3(c[89], x, z)
             + Mul4(c[90], x, z, z) + Mul5(c[91], x, z, z, z) + Mul2(c[92], y)
             + Mul3(c[93], y, y) + Mul4(c[94], y, y, y) + Mul5(c[95], y, y, y, y)
             + Mul5(c[96], y, y, y, z) + Mul4(c[97], y, y, z) + Mul5(c[98], y, y, z, z)
             + Mul3(c[99], y, z) + Mul4(c[100], y, z, z) + Mul5(c[101], y, z, z, z)
             + Mul2(c[102], z) + Mul3(c[103], z, z) + Mul4(c[104], z, z, z)
             + Mul5(c[105], z, z, z, z)
    IN  <<x_next, y_next, z_next>>
---------------------------------------------------------------------------
(* Strings *)

Str2d == <<"2", "d">>
Str3d == <<"3", "d">>
Str2d12 == <<"2", "d", "_", "1", "2">>
Str2d20 == <<"2", "d", "_", "2", "0">>
Str3d30 == <<"3", "d", "_", "3", "0">>
Str3d60 == <<"3", "d", "_", "6", "0">>
Str3d105 == <<"3", "d", "_", "1", "0", "5">>
\* names outside the registry: the first two start with a supported name
Str3d300 == <<"3", "d", "_", "3", "0", "0">>
Str2d121 == <<"2", "d", "_", "1", "2", "1">>
Str4d12 == <<"4", "d", "_", "1", "2">>

StrPng == <<"p", "n", "g">>
StrHtml == <<"h", "t", "m", "l">>
StrObj == <<"o", "b", "j">>
StrJpg == <<"j", "p", "g">>

\* s[a:b] and s[a:] of Python for 0 <= a
PySlice(s, a, b) == SubSeq(s, a + 1, Min(b, Len(s)))
PySliceFrom(s, a) == SubSeq(s, a + 1, Len(s))

\* the slice without its step, s[start:]: C6 tells it apart
PyStrideStepOne(s, start, step) == PySliceFrom(s, start)

\* s[start::step] of Python for 0 <= start and 1 <= step: the elements at
\* start, start+step, ... below len(s)
PyStride(s, start, step) ==
    LET n == IF start >= Len(s) THEN 0 ELSE ((Len(s) - start - 1) \div step) + 1
    IN  [j \in 1..n |-> s[start + (j - 1) * step + 1]]

\* re.match(r'(p1|p2|...)', s) is not None: some alternative is a prefix of s
StartsWith(s, p) == Len(s) >= Len(p) /\ SubSeq(s, 1, Len(p)) = p
ReMatch(alternatives, s) == \E p \in alternatives : StartsWith(s, p)

DigitValue ==
    ("0" :> 0) @@ ("1" :> 1) @@ ("2" :> 2) @@ ("3" :> 3) @@ ("4" :> 4) @@
    ("5" :> 5) @@ ("6" :> 6) @@ ("7" :> 7) @@ ("8" :> 8) @@ ("9" :> 9)

\* int(s): ValueError unless s is a non-empty run of decimal digits
ValueError(s) == Len(s) = 0 \/ \E k \in 1..Len(s) : s[k] \notin DOMAIN DigitValue

RECURSIVE PyInt(_)
PyInt(s) ==
    IF Len(s) = 0 THEN 0
    ELSE 10 * PyInt(SubSeq(s, 1, Len(s) - 1)) + DigitValue[s[Len(s)]]

---------------------------------------------------------------------------
(* Map family registry *)

\* get_map_function: five equality tests, and no else branch: any other
\* name falls off the end of the function, which returns None
get_map_function(m) ==
    IF m = Str3d30 THEN "map_3d_30"
    ELSE IF m = Str3d60 THEN "map_3d_60"
    ELSE IF m = Str3d105 THEN "map_3d_105"
    ELSE IF m = Str2d12 THEN "map_2d_12"
    ELSE IF m = Str2d20 THEN "map_2d_20"
    ELSE "None"

\* map_function(x_cur, y_cur, c) of the 2D generator
CallMap2(map, p, c) ==
    IF map = "map_2d_12" THEN map_2d_12(p[1], p[2], c)
    ELSE map_2d_20(p[1], p[2], c)

\* map_function(x_cur, y_cur, z_cur, c) of the 3D generators
CallMap3(map, p, c) ==
    IF map = "map_3d_30" THEN map_3d_30(p[1], p[2], p[3], c)
    ELSE IF map = "map_3d_60" THEN map_3d_60(p[1], p[2], p[3], c)
    ELSE map_3d_105(p[1], p[2], p[3], c)

---------------------------------------------------------------------------
(* Validation of the command line (main) *)

\* TRUE when the check passes, FALSE when it calls sys.exit
check_num_points(points) == ~(points < 1)
check_output_mode(output) == ReMatch({StrPng, StrHtml, StrObj}, output)
check_output_modes(outputs) ==
    \A k \in 1..Len(outputs) : check_output_mode(outputs[k])
check_map_mode(m) == ReMatch({Str3d30, Str3d60, Str3d105, Str2d12, Str2d20}, m)
check_sieve(jump) == ~(jump < 1)
check_first_point(first) == ~(first < 0)
check_interpolate(interpolate) == ~(interpolate < 1)
check_time(time) == time > 0
check_string_length(m, s) == PyInt(PySliceFrom(m, 3)) = Len(s)

---------------------------------------------------------------------------
(* Validity filter: check_histogram *)

\* one unit of the third decimal, in units of the fourth
RoundUnit == Scale \div (10 ^ RoundDigits)
\* 1.0 in units of the third decimal
One3 == Scale \div RoundUnit

\* np.round(v, 3): the nearest multiple of 0.001, a tie going to the even
\* one; the result is in units of the third decimal
Round3(v) ==
    LET q == v \div RoundUnit
        r == v % RoundUnit
    IN  IF 2 * r < RoundUnit THEN q
        ELSE IF 2 * r > RoundUnit THEN q + 1
        ELSE IF q % 2 = 0 THEN q ELSE q + 1

\* (the array is evaluated once, as the call evaluates its argument)
np_round(a) ==
    CHOOSE r \in {[k \in 1..Len(v) |-> Round3(v[k])] : v \in {a}} : TRUE

SeqMin(a) == CHOOSE v \in {a[k] : k \in 1..Len(a)} : \A k \in 1..Len(a) : v <= a[k]
SeqMax(a) == CHOOSE v \in {a[k] : k \in 1..Len(a)} : \A k \in 1..Len(a) : v >= a[k]

\* np.histogram(a, bins): bins equal-width bins over [min, max], the last
\* one closed; a range of width 0 is widened to [min - 0.5, max + 0.5].
\* The value is the set of bins that hold at least one point.
np_histogram(a, bins) ==
    UNION {
        UNION {
            LET lo == e[1]
                hi == e[2]
                first_edge == IF lo = hi THEN lo - (One3 \div 2) ELSE lo
                last_edge == IF lo = hi THEN hi + (One3 \div 2) ELSE hi
                bin(w) == IF w = last_edge THEN bins - 1
                          ELSE ((w - first_edge) * bins) \div (last_edge - first_edge)
            IN  {bin(v[k]) : k \in 1..Len(v)}
            : e \in {<<SeqMin(v), SeqMax(v)>>} }
        : v \in {a} }

\* the count of the points of the window instead of the occupied bins
\* (hist.sum()): C8 tells it apart
diff_val_all_points(a) == Len(a)

\* np.greater(hist, 0).astype(int).sum() of one axis
diff_val(a) == Cardinality(np_histogram(np_round(a), Len(a)))

\* the counts check_histogram computes and prints, one per axis
diff_vals(dim, x, y, z) ==
    IF dim = 3 THEN <<diff_val(x), diff_val(y), diff_val(z)>>
    ELSE IF dim = 2 THEN <<diff_val(x), diff_val(y)>>
    ELSE <<>>

\* the filter rejecting as soon as one axis is below the threshold: C4 tells
\* it apart
check_histogram_any_axis(dim, x, y, z, threshold) ==
    IF dim = 3
    THEN ~(diff_val(x) < threshold \/ diff_val(y) < threshold \/ diff_val(z) < threshold)
    ELSE IF dim = 2
    THEN ~(diff_val(x) < threshold \/ diff_val(y) < threshold)
    ELSE TRUE

check_histogram(dim, x, y, z, threshold) ==
    IF dim = 3
    THEN ~(diff_val(x) < threshold /\ diff_val(y) < threshold /\ diff_val(z) < threshold)
    ELSE IF dim = 2
    THEN ~(diff_val(x) < threshold /\ diff_val(y) < threshold)
    ELSE TRUE

---------------------------------------------------------------------------
(* Inputs *)

None == <<>>
EmptyString == <<>>

\* the time steps tried in flow mode: 0.01 and 0.0329
DtSlow == Scale \div 100
DtFast == (329 * Scale) \div 10000

Rep(ch, n) == [k \in 1..n |-> ch]

\* the coefficient count of a supported family and the place (counted from
\* 0 as in the source) of the y term in each of its polynomials
NumCoeff(m) ==
    IF m = Str2d12 THEN 12 ELSE IF m = Str2d20 THEN 20 ELSE IF m = Str3d30 THEN 30
    ELSE IF m = Str3d60 THEN 60 ELSE 105
Dim(m) == IF SubSeq(m, 1, 1) = <<"2">> THEN 2 ELSE 3
YTerm(m) ==
    IF m = Str2d12 THEN 4 ELSE IF m = Str2d20 THEN 7 ELSE IF m = Str3d30 THEN 5
    ELSE IF m = Str3d60 THEN 11 ELSE 21

\* 'MMM...': every coefficient 0
ZeroString(n) == Rep("M", n)
\* 'ZZZ...': every coefficient 1.3, which leaves the bound within a few steps
BlowString(n) == Rep("Z", n)
\* x' = 1.3 + 0.6 x - 0.8 y, y' = 0.8 x + 0.6 y (and z' = 0): a rotation
\* about (0.65, 1.3), bounded and never periodic
RotString(m) ==
    LET n == NumCoeff(m)
        b == n \div Dim(m)
    IN  [k \in 1..n |->
            IF k = 1 THEN "Z"
            ELSE IF k = 2 THEN "S"
            ELSE IF k = YTerm(m) + 1 THEN "E"
            ELSE IF k = b + 2 THEN "U"
            ELSE IF k = b + YTerm(m) + 1 THEN "S"
            ELSE "M"]
\* x' = 1.0, every other coefficient 0: in flow mode x grows by dt a step
DriftString(n) == [k \in 1..n |-> IF k = 1 THEN "W" ELSE "M"]

Families == {Str2d12, Str2d20, Str3d30, Str3d60, Str3d105}

SingleStrings(m) ==
    {ZeroString(NumCoeff(m)), BlowString(NumCoeff(m)), RotString(m)}
        \cup (IF Dim(m) = 3 THEN {DriftString(NumCoeff(m))} ELSE {})

\* get_random_string(coeff, n) draws n letters of the table; the model draws
\* one of two of the 26^n strings
get_random_string(n) == {ZeroString(n), BlowString(n)}

Times(m) == IF Dim(m) = 2 THEN {None} ELSE {None, <<DtSlow>>}
Interpolates(time) == IF time = None THEN {1} ELSE 1..MaxInterpolate

Request(m, number, points, time, string, output, jump, first, interpolate) ==
    [m |-> m, number |-> number, points |-> points, time |-> time,
     string |-> string, output |-> output, jump |-> jump, first |-> first,
     interpolate |-> interpolate]

VARIABLES
    args,               \* the parsed command line (argparse's namespace)
    pc,                 \* main | driver | loop | plot | done | exit | crash
    map,                \* the evaluator get_attractors got from get_map_function
    found,              \* get_attractors' counter
    guess,              \* the number of candidates generated so far
    parameter_string,   \* the candidate being generated
    c,                  \* its coefficient vector
    i,                  \* the generator's loop index
    x, y, z,            \* the trajectory written so far (z is empty in 2D)
    verdict,            \* how the current generation run stands
    curve,              \* flow mode: the resampled curve x2, y2, z2
    out_idx,            \* the position of the plot loop in output_modes
    exports,            \* every call of plot_point_cloud so far
    checks,             \* the calls of check_histogram of the current run
    runs,               \* the generation runs that have returned
    report,             \* the summary line printed at the end
    error,              \* the exception or exit that ended the program
    num_guesses,        \* get_attractors' parameter (args.number as main passes it)
    h                   \* a call of check_histogram on its own: arguments and result

vars == <<args, pc, map, found, guess, parameter_string, c, i, x, y, z, verdict,
          curve, out_idx, exports, checks, runs, report, error, num_guesses, h>>

\* single searches over every small length, offset, stride and output list,
\* in each of the three generators
InitDecimation ==
    \E m \in {Str2d12, Str3d30}, p \in 1..MaxPoints, f \in 0..MaxFirst,
       j \in 1..MaxJump, o \in {<<>>, <<StrPng>>, <<StrHtml, StrObj>>} :
        \E t \in Times(m) :
            \E k \in Interpolates(t), s \in {ZeroString(NumCoeff(m)), RotString(m)} :
                args = Request(m, 1, p, t, s, o, j, f, k)

\* random and single searches of every family and mode, with every number of
\* guesses, over one short length
InitSearch ==
    \E m \in Families, n \in 1..MaxGuesses :
        \E t \in Times(m), s \in {EmptyString} \cup SingleStrings(m) :
            args = Request(m, n, MaxPoints \div 2, t, s, <<StrPng>>, 1, 0, 1)

\* requests around the shortest trajectory that reaches loop step 300: the
\* default offset 200 with LongPoints - 1 and LongPoints points
InitLong ==
    \E p \in {LongPoints - 1, LongPoints} :
        \/ \E s \in {EmptyString} \cup SingleStrings(Str2d12) :
            args = Request(Str2d12, 2, p, None, s, <<StrPng>>, MaxJump, DefaultFirst, 1)
        \/ \E s \in SingleStrings(Str3d30) :
            args = Request(Str3d30, 1, p, None, s, <<StrPng>>, MaxJump, DefaultFirst, 1)
        \/ \E s \in {ZeroString(30), DriftString(30)}, k \in 1..MaxInterpolate :
            args = Request(Str3d30, 1, p, <<DtSlow>>, s, <<StrPng>>, MaxJump,
                           DefaultFirst, k)
        \/ args = Request(Str3d30, 1, p, <<DtFast>>, DriftString(30), <<StrPng>>,
                          MaxJump, DefaultFirst, 1)

\* names that are not in the registry, with and without a parameter string
InitUnknownFamily ==
    \E m \in {Str3d300, Str2d121, Str4d12}, p \in 1..2, t \in {None, <<DtSlow>>},
       s \in {EmptyString, ZeroString(300), ZeroString(121)} :
        args = Request(m, 1, p, t, s, <<StrPng>>, 1, 0, 1)

\* command lines that main() refuses, and a parameter string get_coefficient
\* cannot decode
InitInvalid ==
    \E p \in {0, 1}, f \in {-1, 0}, j \in {0, 1}, k \in {0, 1},
       t \in {None, <<0>>}, o \in {<<StrPng>>, <<StrPng, StrJpg>>},
       s \in {EmptyString, ZeroString(11), Rep("m", 12)} :
        args = Request(Str2d12, 1, p, t, s, o, j, f, k)

NoVerdict == [kind |-> "NONE", index |-> -1, coords |-> <<>>, counts |-> <<>>]

NoCall == [pc |-> "idle", dim |-> 0, x |-> <<>>, y |-> <<>>, z |-> <<>>,
           counts |-> <<>>, ret |-> TRUE]

Init ==
    /\ (InitDecimation \/ InitSearch \/ InitLong \/ InitUnknownFamily \/ InitInvalid)
    /\ pc = "main"
    /\ num_guesses = 0
    /\ h = NoCall
    /\ map = "None"
    /\ found = 0
    /\ guess = 0
    /\ parameter_string = EmptyString
    /\ c = <<>>
    /\ i = 0
    /\ x = <<>>
    /\ y = <<>>
    /\ z = <<>>
    /\ verdict = NoVerdict
    /\ curve = <<>>
    /\ out_idx = 0
    /\ exports = <<>>
    /\ checks = <<>>
    /\ runs = <<>>
    /\ report = "none"
    /\ error = "none"

---------------------------------------------------------------------------
(* main *)

\* sys.exit of one of the check_* functions, in the order main calls them
Refused(a) ==
    \/ ~check_num_points(a.points)
    \/ ~check_output_modes(a.output)
    \/ ~check_map_mode(a.m)
    \/ ~check_sieve(a.jump)
    \/ ~check_first_point(a.first)
    \/ ~check_interpolate(a.interpolate)
    \/ (a.time # None /\ ~check_time(a.time[1]))

\* main(): validate the command line (a parameter string sets args.number to
\* 1), then call get_attractors, whose first statements set found to 0 and
\* look the evaluator up
Main ==
    /\ pc = "main"
    /\ IF Refused(args)
       THEN /\ pc' = "exit"
            /\ error' = "sys.exit"
            /\ UNCHANGED <<map, num_guesses>>
       ELSE IF args.string # EmptyString /\ ValueError(PySliceFrom(args.m, 3))
       THEN /\ pc' = "crash"
            /\ error' = "ValueError"
            /\ UNCHANGED <<map, num_guesses>>
       ELSE IF args.string # EmptyString /\ ~check_string_length(args.m, args.string)
       THEN /\ pc' = "exit"
            /\ error' = "sys.exit"
            /\ UNCHANGED <<map, num_guesses>>
       ELSE /\ num_guesses' = IF args.string # EmptyString THEN 1 ELSE args.number
            /\ map' = get_map_function(args.m)
            /\ pc' = "driver"
            /\ UNCHANGED error
    /\ found' = 0
    /\ UNCHANGED <<args, guess, parameter_string, c, i, x, y, z, verdict, curve,
                   out_idx, exports, checks, runs, report, h>>

---------------------------------------------------------------------------
(* get_attractors *)

\* the branch of get_attractors a request takes
Mode ==
    IF PySlice(args.m, 0, 2) = Str2d THEN "2d_map"
    ELSE IF PySlice(args.m, 0, 2) = Str3d
    THEN IF args.time = None THEN "3d_map" ELSE "3d_flow"
    ELSE "none"

\* the candidate count without the override of main for a given string: C7
\* tells it apart
TotalIgnoringString == IF Mode = "none" THEN 0 ELSE args.number

\* the number of candidates the branch generates: one in single search
\* mode, range(num_guesses) in random search mode
Total ==
    IF Mode = "none" THEN 0
    ELSE IF args.string # EmptyString THEN 1
    ELSE IF num_guesses < 0 THEN 0 ELSE num_guesses

\* the loop bound one step too long, range(points + first): C12 tells it
\* apart
CapacityPlusOne == args.points + args.first + 1

\* num_points + plot_offset, the length of the arrays
Capacity == args.points + args.first

\* 0.1, the start value of every coordinate
StartValue == Scale \div 10

\* the call of a generator up to its loop: the arrays, the coefficients and
\* the start values
EnterGenerator(string) ==
    IF KeyError(string)
    THEN /\ pc' = "crash"
         /\ error' = "KeyError"
         /\ UNCHANGED <<c, i, x, y, z, verdict, checks>>
    ELSE /\ c' = get_coefficient(string)
         /\ x' = <<StartValue>>
         /\ y' = <<StartValue>>
         /\ z' = IF Mode = "2d_map" THEN <<>> ELSE <<StartValue>>
         /\ i' = 0
         /\ verdict' = [NoVerdict EXCEPT !.kind = "ITERATING"]
         /\ checks' = <<>>
         /\ pc' = "loop"
         /\ UNCHANGED error

\* the next candidate: the given string, or a random one of int(m[3:])
\* letters
NextCandidate ==
    /\ pc = "driver"
    /\ guess < Total
    /\ guess' = guess + 1
    /\ IF args.string # EmptyString
       THEN /\ parameter_string' = args.string
            /\ EnterGenerator(args.string)
       ELSE IF ValueError(PySliceFrom(args.m, 3))
       THEN /\ pc' = "crash"
            /\ error' = "ValueError"
            /\ UNCHANGED <<parameter_string, c, i, x, y, z, verdict, checks>>
       ELSE \E s \in get_random_string(PyInt(PySliceFrom(args.m, 3))) :
                /\ parameter_string' = s
                /\ EnterGenerator(s)
    /\ UNCHANGED <<args, map, found, curve, out_idx, exports, runs, report,
                   num_guesses, h>>

\* the summary printed after the last candidate
Report ==
    /\ pc = "driver"
    /\ guess = Total
    /\ report' = IF found = 0 THEN "No attractor has been found"
                 ELSE IF found = 1 THEN "One attractor has been found"
                 ELSE "attractors have been found"
    /\ pc' = "done"
    /\ UNCHANGED <<args, map, found, guess, parameter_string, c, i, x, y, z,
                   verdict, curve, out_idx, exports, checks, runs, error,
                   num_guesses, h>>

---------------------------------------------------------------------------
(* The generators *)

Bound == OutOfBounds * Scale

\* the new point of one loop step: the map's value in map mode, an Euler
\* step of the vector field in flow mode
NewPoint ==
    IF Mode = "2d_map" THEN CallMap2(map, <<x[i + 1], y[i + 1]>>, c)
    ELSE LET cur == <<x[i + 1], y[i + 1], z[i + 1]>>
             f == CallMap3(map, cur, c)
         IN  IF Mode = "3d_map" THEN f
             ELSE [k \in 1..3 |-> cur[k] + FMul(f[k], args.time[1])]

\* the bound test with the limit ten times too large: C2 tells it apart
OutOfBoundAt100(p) == \E k \in 1..Len(p) : Abs(p[k]) > 10 * Bound

\* abs(x_new) > 10 or abs(y_new) > 10 [or abs(z_new) > 10]
OutOfBound(p) == \E k \in 1..Len(p) : Abs(p[k]) > Bound

\* the checkpoint one step early (the window 199..298): C3 tells it apart
AtCheckpointEarly(step) == step = CheckAt - 1

\* if i == 300
AtCheckpoint(step) == step = CheckAt

\* a run that returned: what the caller sees, and the calls it made
Returned(v, ret, xs, chk) ==
    [cand |-> guess, string |-> parameter_string, verdict |-> v, ret |-> ret,
     steps |-> Len(xs) - 1, checks |-> chk,
     exports |-> Cardinality({k \in 1..Len(exports) : exports[k].cand = guess})]

\* one pass of the loop body: compute and store the next point, return False
\* if it is out of bounds, and at step 300 return False if check_histogram
\* rejects the points 200..299
Step ==
    /\ pc = "loop"
    /\ i < Capacity - 1
    /\ IF map = "None"
       THEN /\ pc' = "crash"
            /\ error' = "TypeError"
            /\ UNCHANGED <<i, x, y, z, verdict, checks, runs>>
       ELSE LET new == NewPoint
                x1 == Append(x, new[1])
                y1 == Append(y, new[2])
                z1 == IF Mode = "2d_map" THEN z ELSE Append(z, new[3])
                dim == IF Mode = "2d_map" THEN 2 ELSE 3
                wx == PySlice(x1, i - HistWindow, i)
                wy == PySlice(y1, i - HistWindow, i)
                wz == IF Mode = "2d_map" THEN <<>> ELSE PySlice(z1, i - HistWindow, i)
                call == [i |-> i, from |-> i - HistWindow, to |-> i, len |-> Len(wx),
                         counts |-> diff_vals(dim, wx, wy, wz)]
            IN  /\ x' = x1
                /\ y' = y1
                /\ z' = z1
                /\ UNCHANGED error
                /\ IF OutOfBound(new)
                   THEN /\ verdict' = [kind |-> "DIVERGED", index |-> i,
                                       coords |-> new, counts |-> <<>>]
                        /\ checks' = checks
                        /\ runs' = Append(runs, Returned(verdict', FALSE, x1, checks'))
                        /\ pc' = "driver"
                        /\ i' = i
                   ELSE IF AtCheckpoint(i)
                   THEN /\ checks' = Append(checks, call)
                        /\ IF check_histogram(dim, wx, wy, wz, Threshold) = FALSE
                           THEN /\ verdict' = [kind |-> "LOW_DIVERSITY", index |-> i,
                                               coords |-> <<>>, counts |-> call.counts]
                                /\ runs' = Append(runs, Returned(verdict', FALSE, x1, checks'))
                                /\ pc' = "driver"
                                /\ i' = i
                           ELSE /\ i' = i + 1
                                /\ UNCHANGED <<verdict, runs, pc>>
                   ELSE /\ i' = i + 1
                        /\ UNCHANGED <<verdict, runs, pc, checks>>
    /\ UNCHANGED <<args, map, found, guess, parameter_string, c, curve, out_idx,
                   exports, report, num_guesses, h>>

---------------------------------------------------------------------------
(* Resampler (flow mode) *)

\* np.linspace(0, last, num): num evenly spaced parameter values, each the
\* fraction n / d; one value only is the start itself
np_linspace(last, num) ==
    [j \in 1..num |-> [n |-> (j - 1) * last, d |-> IF num = 1 THEN 1 ELSE num - 1]]

\* InterpolatedUnivariateSpline(t, a)(t2) for t = 0, 1, ..., len(a) - 1: an
\* interpolating spline takes the value of the sample at a sample's own
\* parameter.  Between two samples the value is not computed here: the point
\* carries its parameter and the index of the sample to its left.
Spline(a, t2) ==
    [j \in 1..Len(t2) |->
        LET t == t2[j]
            k == t.n \div t.d
        IN  [n |-> t.n, d |-> t.d, sample |-> (t.n % t.d = 0), left |-> k,
             value |-> IF t.n % t.d = 0 THEN a[k + 1] ELSE 0]]

\* the spline's constructor refuses fewer than k + 1 = 4 points
SplineError(a) == ~(Len(a) > SplineDegree)

---------------------------------------------------------------------------
(* After the loop: resample (flow mode), plot, return True *)

\* the loop has run out with no return: every point is written.  In flow
\* mode fit and evaluate the three splines
LoopEnd ==
    /\ pc = "loop"
    /\ ~(i < Capacity - 1)
    /\ verdict' = [verdict EXCEPT !.kind = "COMPLETE"]
    /\ IF Mode = "3d_flow" /\ SplineError(x)
       THEN /\ pc' = "crash"
            /\ error' = "dfitpack.error"
            /\ UNCHANGED <<curve, out_idx>>
       ELSE /\ curve' = IF Mode = "3d_flow"
                        THEN LET t2 == np_linspace(Capacity - 1,
                                           args.points * args.interpolate + args.first)
                             IN  <<Spline(x, t2), Spline(y, t2), Spline(z, t2)>>
                        ELSE <<>>
            /\ out_idx' = 0
            /\ pc' = "plot"
            /\ UNCHANGED error
    /\ UNCHANGED <<args, map, found, guess, parameter_string, c, i, x, y, z,
                   exports, checks, runs, report, num_guesses, h>>

\* what plot_point_cloud writes: nothing unless the mode is one of its three
Artifact(output_mode) ==
    IF output_mode = StrPng THEN "png"
    ELSE IF output_mode = StrHtml THEN "html"
    ELSE IF output_mode = StrObj THEN "obj"
    ELSE "nothing"

\* the sequences one call of plot_point_cloud is given
Forwarded ==
    IF Mode = "2d_map"
    THEN <<PyStride(x, args.first, args.jump), PyStride(y, args.first, args.jump), <<>>>>
    ELSE IF Mode = "3d_map"
    THEN <<PyStride(x, args.first, args.jump), PyStride(y, args.first, args.jump),
           PyStride(z, args.first, args.jump)>>
    ELSE <<PyStride(curve[1], args.first, args.jump),
           PyStride(curve[2], args.first, args.jump),
           PyStride(curve[3], args.first, args.jump)>>

\* one pass of the plot loop: a call of plot_point_cloud
Plot ==
    /\ pc = "plot"
    /\ out_idx < Len(args.output)
    /\ exports' = Append(exports,
            [cand |-> guess, px |-> Forwarded[1], py |-> Forwarded[2],
             pz |-> Forwarded[3], dim |-> IF Mode = "2d_map" THEN "2d" ELSE "3d",
             output_mode |-> args.output[out_idx + 1],
             artifact |-> Artifact(args.output[out_idx + 1]),
             parameter_string |-> parameter_string])
    /\ out_idx' = out_idx + 1
    /\ UNCHANGED <<args, pc, map, found, guess, parameter_string, c, i, x, y, z,
                   verdict, curve, checks, runs, report, error, num_guesses, h>>

\* return True, and the caller's found += 1
ReturnTrue ==
    /\ pc = "plot"
    /\ ~(out_idx < Len(args.output))
    /\ found' = found + 1
    /\ runs' = Append(runs, Returned(verdict, TRUE, x, checks))
    /\ pc' = "driver"
    /\ UNCHANGED <<args, map, guess, parameter_string, c, i, x, y, z, verdict,
                   curve, out_idx, exports, checks, report, error, num_guesses, h>>

---------------------------------------------------------------------------

Next ==
    \/ Main
    \/ NextCandidate
    \/ Step
    \/ LoopEnd
    \/ Plot
    \/ ReturnTrue
    \/ Report

Spec == Init /\ [][Next]_vars

\* the program is one sequential thread: a statement that can run does run
SpecFair == Init /\ [][Next]_vars /\ WF_vars(Next)

---------------------------------------------------------------------------
(* check_histogram on its own, over synthetic windows *)

\* the largest number of distinct values given to one axis of a window
MaxDistinct == 50

\* a window of HistWindow points that cycles through d values spaced step
\* apart from 0.1; with far, the last of the d values is 9.5 instead
Window(d, step, far) ==
    [k \in 1..HistWindow |->
        LET j == (k - 1) % d
        IN  IF far /\ j = d - 1 THEN (19 * Scale) \div 2
            ELSE (Scale \div 10) + j * step]

\* steps of 0.001 (every value survives the rounding) and of 0.0007
Windows ==
    {Window(d, step, far) : d \in {1, MaxDistinct - 1, MaxDistinct},
                            step \in {RoundUnit, RoundUnit - 3}, far \in BOOLEAN}

InitHist ==
    /\ \/ \E wx \in Windows, wy \in Windows :
            h = [NoCall EXCEPT !.pc = "called", !.dim = 2, !.x = wx, !.y = wy]
       \/ \E wx \in Windows, wy \in Windows, wz \in Windows :
            h = [NoCall EXCEPT !.pc = "called", !.dim = 3, !.x = wx, !.y = wy, !.z = wz]
    /\ args = Request(Str2d12, 1, 1, None, EmptyString, <<>>, 1, 0, 1)
    /\ pc = "check_histogram"
    /\ num_guesses = 0
    /\ map = "None"
    /\ found = 0
    /\ guess = 0
    /\ parameter_string = EmptyString
    /\ c = <<>>
    /\ i = 0
    /\ x = <<>>
    /\ y = <<>>
    /\ z = <<>>
    /\ verdict = NoVerdict
    /\ curve = <<>>
    /\ out_idx = 0
    /\ exports = <<>>
    /\ checks = <<>>
    /\ runs = <<>>
    /\ report = "none"
    /\ error = "none"

\* the call returns: the counts it prints and the value it returns
HistCall ==
    /\ h.pc = "called"
    /\ h' = [h EXCEPT !.pc = "returned",
                      !.counts = diff_vals(h.dim, h.x, h.y, h.z),
                      !.ret = check_histogram(h.dim, h.x, h.y, h.z, Threshold)]
    /\ UNCHANGED <<args, pc, map, found, guess, parameter_string, c, i, x, y, z,
                   verdict, curve, out_idx, exports, checks, runs, report, error,
                   num_guesses>>

NextHist == HistCall

SpecHist == InitHist /\ [][NextHist]_vars

---------------------------------------------------------------------------
(* Properties *)

\* the calls of plot_point_cloud made for candidate cd
ExportsOf(cd) == {k \in 1..Len(exports) : exports[k].cand = cd}

\* the k-th point written by the current run (k = 1 is index 0)
PointAt(k) == IF z = <<>> THEN <<x[k], y[k]>> ELSE <<x[k], y[k], z[k]>>

\* some coordinate of the k-th point has magnitude above 10
Beyond10(k) == \E a \in 1..Len(PointAt(k)) : Abs(PointAt(k)[a]) > 10 * Scale

Rejected(kind) == kind \in {"DIVERGED", "LOW_DIVERSITY"}

CompleteRuns == {k \in 1..Len(runs) : runs[k].verdict.kind = "COMPLETE"}

(* C1: plot_point_cloud is called only for a candidate whose generation ran
   all P+F-1 steps without a rejection; a candidate that ends DIVERGED or
   LOW_DIVERSITY causes no call, is not generated again and does not raise
   found; a candidate that reaches COMPLETE causes exactly one call per
   requested output format. *)
C1_ExportOnlyAfterComplete ==
    /\ \A k \in 1..Len(exports) :
        IF exports[k].cand <= Len(runs)
        THEN /\ runs[exports[k].cand].verdict.kind = "COMPLETE"
             /\ runs[exports[k].cand].steps = Capacity - 1
        ELSE /\ exports[k].cand = guess
             /\ verdict.kind = "COMPLETE"
             /\ Len(x) = Capacity
    /\ \A k \in 1..Len(runs) :
        /\ runs[k].cand = k
        /\ Rejected(runs[k].verdict.kind) =>
              (runs[k].ret = FALSE /\ runs[k].exports = 0 /\ ExportsOf(k) = {})
        /\ runs[k].verdict.kind = "COMPLETE" =>
              Cardinality(ExportsOf(k)) = Len(args.output)
    /\ found = Cardinality(CompleteRuns)
    /\ Rejected(verdict.kind) => ExportsOf(guess) = {}
    /\ (verdict.kind = "COMPLETE" /\ pc = "plot") =>
          Cardinality(ExportsOf(guess)) = out_idx
    /\ (verdict.kind = "COMPLETE" /\ pc # "plot") =>
          Cardinality(ExportsOf(guess)) = Len(args.output)

\* the same, leaving out the one state in which it fails: flow mode with
\* fewer than four points, where the spline constructor raises after the
\* loop has completed
C1_UnlessSplineRaises ==
    /\ \A k \in 1..Len(exports) :
        IF exports[k].cand <= Len(runs)
        THEN /\ runs[exports[k].cand].verdict.kind = "COMPLETE"
             /\ runs[exports[k].cand].steps = Capacity - 1
        ELSE /\ exports[k].cand = guess
             /\ verdict.kind = "COMPLETE"
             /\ Len(x) = Capacity
    /\ \A k \in 1..Len(runs) :
        /\ runs[k].cand = k
        /\ Rejected(runs[k].verdict.kind) =>
              (runs[k].ret = FALSE /\ runs[k].exports = 0 /\ ExportsOf(k) = {})
        /\ runs[k].verdict.kind = "COMPLETE" =>
              Cardinality(ExportsOf(k)) = Len(args.output)
    /\ found = Cardinality(CompleteRuns)
    /\ Rejected(verdict.kind) => ExportsOf(guess) = {}
    /\ (verdict.kind = "COMPLETE" /\ pc = "plot") =>
          Cardinality(ExportsOf(guess)) = out_idx
    /\ (verdict.kind = "COMPLETE" /\ pc \notin {"plot", "crash"}) =>
          Cardinality(ExportsOf(guess)) = Len(args.output)
    /\ (verdict.kind = "COMPLETE" /\ pc = "crash") =>
          (Mode = "3d_flow" /\ Capacity <= 3 /\ error = "dfitpack.error")

(* C2: in every generator a point with a coordinate of magnitude above 10 is
   the last point of its run: the run stops at the step i that computed it
   with verdict DIVERGED, which reports i and the point; at step 300 the
   diversity check is then not run; a COMPLETE trajectory holds no such
   point. *)
C2_DivergenceStops ==
    /\ \A k \in 1..Len(x) :
        Beyond10(k) => /\ k = Len(x)
                       /\ verdict.kind = "DIVERGED"
                       /\ verdict.index = k - 2
                       /\ verdict.coords = PointAt(k)
    /\ verdict.kind = "DIVERGED" =>
        /\ Len(x) = verdict.index + 2
        /\ Beyond10(Len(x))
        /\ pc \in {"driver", "done"}
        /\ verdict.index <= 300 => checks = <<>>
    /\ verdict.kind = "COMPLETE" => \A k \in 1..Len(x) : ~Beyond10(k)

\* a run diverges at step 300, and check_histogram has not been called
C2_Witness ==
    /\ verdict.kind = "DIVERGED"
    /\ verdict.index = 300
    /\ Len(x) = 302
    /\ checks = <<>>

(* C3: check_histogram is called at most once in a generation run, at loop
   step 300 and on the points 200..299 of each axis (100 points); a run that
   has ended called it if and only if P+F > 301 and no step up to 300
   diverged; with P+F <= 301 it is never called and no run ends
   LOW_DIVERSITY. *)
C3_DiversityCheckOnce ==
    /\ Len(checks) <= 1
    /\ \A k \in 1..Len(checks) :
        /\ checks[k].i = 300
        /\ checks[k].from = 200
        /\ checks[k].to = 300
        /\ checks[k].len = 100
    /\ (Rejected(verdict.kind) \/ verdict.kind = "COMPLETE") =>
        ((Len(checks) = 1) <=>
            (Capacity > 301 /\ ~(verdict.kind = "DIVERGED" /\ verdict.index <= 300)))
    /\ Capacity <= 301 => (checks = <<>> /\ verdict.kind # "LOW_DIVERSITY")
    /\ \A k \in 1..Len(runs) :
        /\ Len(runs[k].checks) <= 1
        /\ Capacity <= 301 => runs[k].verdict.kind \in {"DIVERGED", "COMPLETE"}

\* a run passed the check at step 300 and went on to complete
C3_Witness ==
    /\ Len(checks) = 1
    /\ verdict.kind = "COMPLETE"
    /\ Capacity > 301

(* C4: check_histogram returns False if and only if the occupied-bin count
   of every axis (two axes for dim 2, three for dim 3) is below 50; one axis
   with a count of 50 or more makes it return True whatever the others. *)
C4_RejectIffEveryAxisBelow ==
    h.pc = "returned" =>
        LET axes == IF h.dim = 2 THEN <<h.x, h.y>> ELSE <<h.x, h.y, h.z>>
        IN  /\ Len(h.counts) = h.dim
            /\ \A a \in 1..h.dim : h.counts[a] = diff_val(axes[a])
            /\ (h.ret = FALSE) <=> (\A a \in 1..h.dim : diff_val(axes[a]) < 50)

\* a 3D call returns True with one axis at 50 bins or more and another
\* below 50
C4_Witness ==
    /\ h.pc = "returned"
    /\ h.dim = 3
    /\ h.ret = TRUE
    /\ \E a \in 1..3 : h.counts[a] >= 50
    /\ \E a \in 1..3 : h.counts[a] < 50

\* the number of distinct values of a window after np.round(., 3)
DistinctRounded(a) == Cardinality({Round3(a[k]) : k \in 1..Len(a)})

(* C5: a window of 100 points with exactly 49 distinct rounded values on
   every axis is rejected, and a window with 50 distinct rounded values on
   at least one axis passes. *)
C5_ThresholdBoundary ==
    h.pc = "returned" =>
        LET axes == IF h.dim = 2 THEN <<h.x, h.y>> ELSE <<h.x, h.y, h.z>>
        IN  /\ (\A a \in 1..h.dim : DistinctRounded(axes[a]) = 49) => h.ret = FALSE
            /\ (\E a \in 1..h.dim : DistinctRounded(axes[a]) = 50) => h.ret = TRUE

\* the half of C5 the code keeps: a bin count never exceeds the number of
\* distinct rounded values, so 49 of them on every axis are rejected
C5_FortyNineRejected ==
    h.pc = "returned" =>
        LET axes == IF h.dim = 2 THEN <<h.x, h.y>> ELSE <<h.x, h.y, h.z>>
        IN  /\ \A a \in 1..h.dim : h.counts[a] <= DistinctRounded(axes[a])
            /\ (\A a \in 1..h.dim : DistinctRounded(axes[a]) = 49) => h.ret = FALSE
            /\ (\E a \in 1..h.dim : h.counts[a] >= 50) => h.ret = TRUE

(* C6: in map mode every call of plot_point_cloud is given, on each axis,
   exactly the points at the indices F, F+s, F+2s, ... below L = P+F of the
   completed trajectory, in increasing order, and every output format gets
   the same sequences. *)
C6_Decimation ==
    Mode \in {"2d_map", "3d_map"} =>
        \A k \in ExportsOf(guess) :
            LET e == exports[k]
                idx == {n \in args.first..(Len(x) - 1) : (n - args.first) % args.jump = 0}
            IN  /\ Len(x) = args.points + args.first
                /\ Len(e.px) = Cardinality(idx)
                /\ Len(e.py) = Len(e.px)
                /\ Len(e.pz) = IF Mode = "2d_map" THEN 0 ELSE Len(e.px)
                /\ \A j \in 1..Len(e.px) :
                    LET n == args.first + (j - 1) * args.jump
                    IN  /\ n \in idx
                        /\ e.px[j] = x[n + 1]
                        /\ e.py[j] = y[n + 1]
                        /\ Mode = "3d_map" => e.pz[j] = z[n + 1]
                /\ \A l \in ExportsOf(guess) :
                    /\ exports[l].px = e.px
                    /\ exports[l].py = e.py
                    /\ exports[l].pz = e.pz

\* stride 3 and offset 2 on a trajectory of 10 distinct points: both output
\* formats are given the points at the indices 2, 5 and 8
C6_Witness ==
    /\ Mode = "2d_map"
    /\ args.jump = 3
    /\ args.first = 2
    /\ Len(x) = 10
    /\ Cardinality(ExportsOf(guess)) = 2
    /\ \A k \in ExportsOf(guess) : exports[k].px = <<x[3], x[6], x[9]>>
    /\ Cardinality({x[k] : k \in 1..10}) = 10

\* the number of candidates a request asks for
Asked == IF args.string # EmptyString THEN 1 ELSE args.number

(* C7 as stated: after the last candidate, exactly one candidate (single
   search) or exactly N (random search) has been generated, each once; found
   is the number of candidates that reached COMPLETE, and is 0, 1 or N. *)
C7_FoundIsZeroOneOrN ==
    pc = "done" =>
        /\ guess = Asked
        /\ Len(runs) = Asked
        /\ \A k \in 1..Len(runs) : runs[k].cand = k
        /\ found = Cardinality(CompleteRuns)
        /\ found \in {0, 1, args.number}

(* C7 as amended: after the last candidate, exactly one candidate (single
   search, whatever the number of guesses) or exactly N (random search) has
   been generated, each once and in turn; found is the number of candidates
   that reached COMPLETE, which is any number from 0 to the number of
   candidates. *)
C7_FoundCountsComplete ==
    pc = "done" =>
        /\ guess = Asked
        /\ Len(runs) = Asked
        /\ \A k \in 1..Len(runs) : runs[k].cand = k
        /\ found = Cardinality(CompleteRuns)
        /\ found \in 0..Asked

\* a random search of three candidates of which two completed
C7_Witness ==
    /\ pc = "done"
    /\ args.string = EmptyString
    /\ args.number = 3
    /\ Len(runs) = 3
    /\ found = 2

\* the current run is the 2d_12 candidate 'MMMMMMMMMMMM'
AllM2d12 ==
    /\ args.m = Str2d12
    /\ guess >= 1
    /\ parameter_string = Rep("M", 12)
    /\ verdict.kind # "NONE"

(* C8: with family 2d_12, the parameter string of twelve 'M' and P+F > 301
   the run never diverges and never completes: the check at step 300 counts
   one occupied bin on each axis, the run ends LOW_DIVERSITY there and
   nothing is exported. *)
C8_AllMLowDiversity ==
    (AllM2d12 /\ Capacity > 301) =>
        /\ verdict.kind \in {"ITERATING", "LOW_DIVERSITY"}
        /\ verdict.kind = "ITERATING" => (pc = "loop" /\ i <= 300 /\ Len(x) = i + 1)
        /\ verdict.kind = "LOW_DIVERSITY" =>
            /\ verdict.index = 300
            /\ verdict.counts = <<1, 1>>
            /\ Len(checks) = 1
            /\ checks[1].counts = <<1, 1>>
            /\ pc \in {"driver", "done"}
        /\ ExportsOf(guess) = {}

\* the run of twelve 'M' has been rejected at step 300
C8_Witness ==
    /\ AllM2d12
    /\ Capacity > 301
    /\ verdict.kind = "LOW_DIVERSITY"
    /\ verdict.index = 300

(* C9 as stated: with family 2d_12 and the parameter string of twelve 'M'
   every point written, at every index, is (0.1, 0.1). *)
C9_ConstantAtStart ==
    AllM2d12 => \A k \in 1..Len(x) : x[k] = Scale \div 10 /\ y[k] = Scale \div 10

(* C9 as amended: with family 2d_12 and the parameter string of twelve 'M'
   the point at index 0 is (0.1, 0.1) and every point written at an index
   k >= 1 is (0, 0). *)
C9_ZeroAfterStart ==
    AllM2d12 =>
        /\ Len(x) >= 1
        /\ Len(y) = Len(x)
        /\ x[1] = Scale \div 10
        /\ y[1] = Scale \div 10
        /\ \A k \in 2..Len(x) : x[k] = 0 /\ y[k] = 0

\* the run of twelve 'M' has written index 0 and at least two more points
C9_Witness ==
    /\ AllM2d12
    /\ Len(x) >= 3

(* C10: get_map_function gives each of the five names its own evaluator and
   fails for every other name, so that a name outside the registry, even
   one that starts with a supported name, never has an evaluator looked up
   without an error and never has a candidate generated. *)
C10_UnknownFamilyFails ==
    /\ (args.m = Str2d12 /\ pc \notin {"main", "exit"}) => map = "map_2d_12"
    /\ (args.m = Str2d20 /\ pc \notin {"main", "exit"}) => map = "map_2d_20"
    /\ (args.m = Str3d30 /\ pc \notin {"main", "exit"}) => map = "map_3d_30"
    /\ (args.m = Str3d60 /\ pc \notin {"main", "exit"}) => map = "map_3d_60"
    /\ (args.m = Str3d105 /\ pc \notin {"main", "exit"}) => map = "map_3d_105"
    /\ args.m \notin {Str2d12, Str2d20, Str3d30, Str3d60, Str3d105} =>
        /\ map = "None"
        /\ pc \in {"main", "exit", "crash"}
        /\ guess = 0
        /\ exports = <<>>
        /\ found = 0

\* what does hold for a name outside the registry: no evaluator is ever
\* bound to it and no map step is ever taken
C10_NoEvaluatorNoStep ==
    args.m \notin {Str2d12, Str2d20, Str3d30, Str3d60, Str3d105} =>
        /\ map = "None"
        /\ Len(x) <= 1

\* the current flow-mode run has executed every step of its loop with no
\* rejection
AcceptedFlow == Mode = "3d_flow" /\ guess >= 1 /\ verdict.kind = "COMPLETE"

\* the resampled curve of the current run lies on the grid of
\* np.linspace(0, P+F-1, P*k+F), and with k = 1 it is the trajectory itself
OnResamplerGrid ==
    LET num == args.points * args.interpolate + args.first
        last == args.points + args.first - 1
        axes == <<x, y, z>>
    IN  /\ Len(curve) = 3
        /\ \A a \in 1..3 :
            /\ Len(curve[a]) = num
            /\ \A j \in 1..Len(curve[a]) :
                /\ curve[a][j].d > 0
                /\ curve[a][j].n * (num - 1) = (j - 1) * last * curve[a][j].d
            /\ Len(curve[a]) = num => /\ curve[a][1].n = 0
                                      /\ curve[a][num].n = last * curve[a][num].d
            /\ args.interpolate = 1 =>
                \A j \in 1..Len(curve[a]) :
                    /\ curve[a][j].n = (j - 1) * curve[a][j].d
                    /\ curve[a][j].sample
                    /\ curve[a][j].value = axes[a][j]

(* C11: for an accepted flow-mode trajectory with P points, offset F and
   interpolation factor k >= 1 the resampled curve has exactly P*k + F
   points at evenly spaced parameter values from 0 to P+F-1; with k = 1 the
   j-th parameter value is the sample index j and the curve equals the
   trajectory sample for sample. *)
C11_ResamplerGrid == AcceptedFlow => OnResamplerGrid

\* the same for the runs in which the spline constructor does not raise,
\* which are those of four points or more
C11_UnlessSplineRaises ==
    /\ (AcceptedFlow /\ pc # "crash") => OnResamplerGrid
    /\ (AcceptedFlow /\ pc = "crash") => (Len(x) <= 3 /\ error = "dfitpack.error")
    /\ (AcceptedFlow /\ Len(x) >= 4) => pc # "crash"

\* a resampled curve with k = 2: twice the points, every other one a sample
C11_Resampled ==
    /\ AcceptedFlow
    /\ pc = "plot"
    /\ args.interpolate = 2
    /\ args.first = 0
    /\ Len(curve[1]) = 2 * Len(x)

Terminal == {"DIVERGED", "LOW_DIVERSITY", "COMPLETE"}

\* a generation run of a family of the registry is under way or has ended
InRun == args.m \in Families /\ guess >= 1 /\ verdict.kind # "NONE"

\* a recorded call of check_histogram rejected its window
FailedCheck(call) == \A a \in 1..Len(call.counts) : call.counts[a] < 50

\* what holds of a run in every state
GeneratorStates ==
    InRun =>
        /\ verdict.kind \in {"ITERATING"} \cup Terminal
        /\ Len(x) >= 1
        /\ Len(y) = Len(x)
        /\ Len(z) = IF Mode = "2d_map" THEN 0 ELSE Len(x)
        /\ \A a \in 1..Len(PointAt(1)) : 10 * PointAt(1)[a] = Scale
        /\ Len(x) - 1 <= args.points + args.first - 1
        /\ verdict.kind = "ITERATING" =>
            /\ pc = "loop"
            /\ Len(x) = i + 1
        /\ verdict.kind = "DIVERGED" =>
            /\ Beyond10(Len(x))
            /\ verdict.index = Len(x) - 2
        /\ verdict.kind = "LOW_DIVERSITY" =>
            /\ Len(checks) = 1
            /\ FailedCheck(checks[1])
            /\ verdict.index = Len(x) - 2
        /\ verdict.kind \in Terminal =>
            ((verdict.kind = "COMPLETE") <=>
                /\ Len(x) - 1 = args.points + args.first - 1
                /\ \A k \in 1..Len(x) : ~Beyond10(k)
                /\ \A k \in 1..Len(checks) : ~FailedCheck(checks[k]))

\* what holds of every step of a run
GeneratorSteps ==
    (InRun /\ guess' = guess) =>
        /\ verdict.kind \in Terminal =>
            (verdict' = verdict /\ x' = x /\ y' = y /\ z' = z /\ i' = i)
        /\ (verdict.kind = "ITERATING" /\ x' # x) =>
            /\ Len(x') = Len(x) + 1
            /\ SubSeq(x', 1, Len(x)) = x
            /\ i' = i + 1 \/ verdict'.kind \in {"DIVERGED", "LOW_DIVERSITY"}
        /\ (verdict.kind = "ITERATING" /\ x' = x) =>
            (verdict' = verdict \/ verdict'.kind = "COMPLETE")

(* C12: a generation run of any family starts with 0.1 in every coordinate
   at index 0, executes at most P+F-1 steps with the step index rising by one
   from 0, always terminates, and ends in exactly one of DIVERGED,
   LOW_DIVERSITY and COMPLETE; it ends COMPLETE if and only if all P+F-1
   steps ran with no divergence and no failed diversity check; after a
   terminal verdict the run takes no step and changes no verdict. *)
C12_GeneratorStateMachine ==
    /\ []GeneratorStates
    /\ [][GeneratorSteps]_vars
    /\ (InRun /\ verdict.kind = "ITERATING") ~> (verdict.kind \in Terminal)

\* a 3D map run passed the check at step 300 and ran all its P+F-1 steps
C12_Witness ==
    /\ InRun
    /\ Mode = "3d_map"
    /\ verdict.kind = "COMPLETE"
    /\ Len(x) = args.points + args.first
    /\ Len(x) > 301
    /\ Len(checks) = 1

\* the trajectory index of the j-th point a map-mode call is given
ForwardedIndex(j) == args.first + (j - 1) * args.jump

(* C13: no point given to plot_point_cloud belongs to the leading transient:
   in map mode every forwarded point is the trajectory point of an index
   t >= F, and in flow mode, for every interpolation factor k >= 1, every
   forwarded point of the resampled curve has a parameter value t >= F. *)
C13_LeadingOffsetExcluded ==
    \A e \in ExportsOf(guess) :
        LET px == exports[e].px
        IN  IF Mode = "3d_flow"
            THEN \A j \in 1..Len(px) : px[j].n >= args.first * px[j].d
            ELSE \A j \in 1..Len(px) :
                    /\ ForwardedIndex(j) >= args.first
                    /\ ForwardedIndex(j) < Len(x)
                    /\ px[j] = x[ForwardedIndex(j) + 1]

\* what the code keeps: the exclusion in map mode and in flow mode with
\* k = 1; with k >= 2 the points forwarded are those of the resampled
\* indices F, F+s, ..., whose parameters are only j*(P+F-1)/(P*k+F-1)
C13_ResampledIndexFromF ==
    \A e \in ExportsOf(guess) :
        LET px == exports[e].px
            num == args.points * args.interpolate + args.first
            last == args.points + args.first - 1
        IN  IF Mode = "3d_flow"
            THEN \A j \in 1..Len(px) :
                    /\ ForwardedIndex(j) < num
                    /\ px[j] = curve[1][ForwardedIndex(j) + 1]
                    /\ px[j].n * (num - 1) = ForwardedIndex(j) * last * px[j].d
                    /\ args.interpolate = 1 => px[j].n >= args.first * px[j].d
                    /\ (args.interpolate >= 2 /\ j = 1 /\ args.first >= 1) =>
                          px[j].n < args.first * px[j].d
            ELSE \A j \in 1..Len(px) :
                    /\ ForwardedIndex(j) >= args.first
                    /\ ForwardedIndex(j) < Len(x)
                    /\ px[j] = x[ForwardedIndex(j) + 1]

=============================================================================
